---- MODULE Spec2Model ----
(***************************************************************************)
(* Windowed ingestion engine of the TRREB RESO sync (sync.js,              *)
(* lib/sync/propertySync.js, lib/sync/mediaSync.js, lib/utils/db.js).      *)
(*                                                                         *)
(* Time is counted in whole hours; hour 0 is 00:00 of the default          *)
(* MEDIA_SYNC_START_DATE.  The process runs in a zone without daylight     *)
(* saving, so Date#setDate(+-n) moves by n*24 hours and Date#setHours(h)   *)
(* moves to hour h of the same calendar day.  Optional values (a null      *)
(* timestamp, an undefined key) are the empty sequence; a present          *)
(* timestamp t is <<t>>; a key string is a sequence of characters.         *)
(***************************************************************************)
EXTENDS Integers, Sequences, FiniteSets, TLC

\* ---------------------------------------------------------------- bounds
\* The upstream's row cap per $filter query (apiLimit = 100000 in the
\* source), scaled down so that saturated windows fit in a small feed.
apiLimit == 2
\* BATCH_SIZE ranges over 1..MaxBatch.
MaxBatch == 2
\* Largest number of records an upstream feed holds.
MaxRecords == 2

\* ------------------------------------------------------ program constants
HoursPerDay == 24
mediaDaysPerChunk == 7
mediaMaxChunks == 500
mediaMaxEmptyChunks == 10
rangeMaxChunks == 100
propMaxChunks == 50

Null == <<>>
Some(t) == <<t>>
Val(o) == o[1]

Resources == {"IDX", "VOW", "MEDIA"}
IsMedia(r) == r = "MEDIA"

\* The table a resource is written to (upsertBatch's tableName).
TableOf(r) == IF IsMedia(r) THEN "media" ELSE "property"

\* ------------------------------------------------------------ upstream
\* A raw upstream row: k1 = ListingKey or ResourceRecordKey, k2 = MediaKey
\* (unused for listings), ts = ModificationTimestamp or
\* MediaModificationTimestamp.
Rec(k1, k2, t) == [k1 |-> k1, k2 |-> k2, ts |-> t]

MediaPool ==
  { Rec(<<"a">>, <<"a">>, 250),
    Rec(<<"a">>, <<"a", "_", "a">>, 98),
    Rec(<<"a", "_", "a">>, <<"a">>, 99),
    Rec(<<"b">>, <<"a">>, 98),
    Rec(<<"b">>, <<"b">>, 10),
    Rec(<<"b">>, <<"b">>, 250),
    Rec(<<>>, <<"a">>, 250) }

PropertyPool ==
  { Rec(<<"a">>, <<>>, 250),
    Rec(<<"b">>, <<>>, 98),
    Rec(<<"c">>, <<>>, 10),
    Rec(<<>>, <<>>, 250) }

PoolOf(r) == IF IsMedia(r) THEN MediaPool ELSE PropertyPool

\* The primary key of a row in its table.
Identity(r, rec) == IF IsMedia(r) THEN <<rec.k1, rec.k2>> ELSE <<rec.k1>>

\* A row identity is unique in the upstream, as it is a primary key there.
Feeds(r, n) ==
  { S \in SUBSET PoolOf(r) :
      /\ Cardinality(S) <= n
      /\ \A x \in S, y \in S : Identity(r, x) = Identity(r, y) => x = y }

\* ------------------------------------------------------------- filters
\* kind "all": no $filter; "gt": <field> gt lo; "range": <field> ge lo and
\* <field> lt hi.
Filter(kind, lo, hi) == [kind |-> kind, lo |-> lo, hi |-> hi]
NoFilter == Filter("all", 0, 0)

Matches(rec, f) ==
  CASE f.kind = "all" -> TRUE
    [] f.kind = "gt" -> rec.ts > f.lo
    [] OTHER -> rec.ts >= f.lo /\ rec.ts < f.hi

Matching(feed, f) == { rec \in feed : Matches(rec, f) }

\* ------------------------------------------------------ pure helpers
Min(a, b) == IF a < b THEN a ELSE b
Max(a, b) == IF a > b THEN a ELSE b

Range(s) == { s[i] : i \in 1..Len(s) }

\* The key under which a row is remembered in the per-run dedup set.
DedupKey(r, rec) ==
  IF IsMedia(r) THEN rec.k1 \o <<"_">> \o rec.k2 ELSE rec.k1

\* The truthiness test that guards the dedup set.
HasKeys(r, rec) ==
  IF IsMedia(r) THEN rec.k1 # <<>> /\ rec.k2 # <<>> ELSE rec.k1 # <<>>

\* The dedup test without the look-up in the per-run set.
IsNewRecordUnseenUnchecked(r, rec, seen) == HasKeys(r, rec)

IsNewRecord(r, rec, seen) == HasKeys(r, rec) /\ DedupKey(r, rec) \notin seen

\* The dedup loop over one page: rows in page order, each tested against
\* the set as left by the rows before it.
RECURSIVE DedupFrom(_, _, _, _, _)
DedupFrom(r, value, i, seen, acc) ==
  IF i > Len(value) THEN [unique |-> acc, seen |-> seen]
  ELSE IF IsNewRecord(r, value[i], seen)
       THEN DedupFrom(r, value, i + 1, seen \cup {DedupKey(r, value[i])},
                      Append(acc, value[i]))
       ELSE DedupFrom(r, value, i + 1, seen, acc)

DedupPage(r, value, seen) == DedupFrom(r, value, 1, seen, <<>>)

\* findLatestTimestamp over the mapped rows of a batch (every row carries
\* its timestamp field, normalised by safeDate).
findLatestTimestamp(records) ==
  IF Len(records) = 0 THEN Null
  ELSE Some(CHOOSE t \in { records[i].ts : i \in 1..Len(records) } :
              \A j \in 1..Len(records) : records[j].ts <= t)

\* The oldest-timestamp loop over the raw rows of a page.
OldestOf(value, oldest) ==
  LET ts == { value[i].ts : i \in 1..Len(value) } \cup Range(oldest)
  IN  IF ts = {} THEN Null
      ELSE Some(CHOOSE t \in ts : \A u \in ts : t <= u)

\* if (!latest || (other && other > latest)) latest = other
MergeLatest(latest, other) ==
  IF latest = Null \/ (other # Null /\ Val(other) > Val(latest))
  THEN other ELSE latest

\* if (batchLatest && (!latest || batchLatest > latest)) latest = batchLatest
BatchLatest(latest, batchLatest) ==
  IF batchLatest # Null /\ (latest = Null \/ Val(batchLatest) > Val(latest))
  THEN batchLatest ELSE latest

\* upsertBatch's return value: data?.length || records.length
upsertCount(dataLen, recordsLen) == IF dataLen = 0 THEN recordsLen ELSE dataLen

\* The store's upsert: a row with the same primary key is replaced.
UpsertRows(r, table, rows) ==
  { x \in table : \A i \in 1..Len(rows) : Identity(r, rows[i]) # Identity(r, x) }
    \cup { rows[i] : i \in { j \in 1..Len(rows) :
             \A k \in (j + 1)..Len(rows) : Identity(r, rows[k]) # Identity(r, rows[j]) } }


\* ------------------------------------------------------------- server
\* What one page request can be answered with.  A request that reaches
\* beyond the cap is refused with 'total exceeds 100000'; any other request
\* gets a page of at most top rows that satisfy the filter (in any order,
\* rows possibly repeated or left out, as no $orderby is sent).  Every
\* request can also end in a transport error that outlived fetchWithRetry's
\* attempts.
Pages(M, top) == UNION { [1..n -> M] : n \in 0..top }

BeyondCap(skip, top) == skip + top > apiLimit

Responses(feed, f, skip, top) ==
  (IF BeyondCap(skip, top)
   THEN { [type |-> "cap", value |-> <<>>] }
   ELSE { [type |-> "page", value |-> v] : v \in Pages(Matching(feed, f), top) })
    \cup { [type |-> "error", value |-> <<>>] }

\* A fixed enumeration of a set of rows (the order of a stable server).
Enumerate(S) ==
  CHOOSE s \in [1..Cardinality(S) -> S] : \A i, j \in 1..Cardinality(S) : s[i] = s[j] => i = j

\* The answer of a server with a stable row order.
FaithfulResponse(feed, f, skip, top) ==
  IF BeyondCap(skip, top) THEN [type |-> "cap", value |-> <<>>]
  ELSE LET all == Enumerate(Matching(feed, f))
       IN  [type |-> "page", value |-> SubSeq(all, skip + 1, Min(skip + top, Len(all)))]

\* Whether resp is the page that some ordering of the matching rows gives
\* for this request: distinct rows, as many as that page holds.
IsPageOfSomeOrder(feed, f, skip, top, resp) ==
  IF BeyondCap(skip, top) THEN resp.type = "cap"
  ELSE /\ resp.type = "page"
       /\ Len(resp.value) = Min(top, Max(0, Cardinality(Matching(feed, f)) - skip))
       /\ \A i, j \in 1..Len(resp.value) : resp.value[i] = resp.value[j] => i = j

\* The answers of a server with a stable row order that can fail.
StableResponses(feed, f, skip, top) ==
  { FaithfulResponse(feed, f, skip, top), [type |-> "error", value |-> <<>>] }

\* -------------------------------------------------------------- state
VARIABLES
  batchSize,    \* BATCH_SIZE
  incremental,  \* --incremental
  failFast,     \* --fail-fast
  only,         \* "all", or the resource picked by --idx-only/--vow-only/--media-only
  syncLog,      \* sync_log: resource -> lastprocessedtimestamp
  tables,       \* rows of the property and media tables
  pc,           \* where the process is
  exitCode,     \* process exit code, -1 while running
  resource,     \* the resource whose run is in progress
  feed,         \* the upstream rows of that resource during its run
  now,          \* new Date() at the start of the media walk
  targetStartDate, \* MEDIA_SYNC_START_DATE
  seen,         \* seenListingKeys / seenMediaKeys
  sl,           \* fetchAndUpsert(Media)BatchesInternal: the slice in progress
  smart,        \* fetchWithSmartPagination / fetchMediaWithSmartPagination
  chunks,       \* fetchOlderRecordsInChunks
  range,        \* fetchMediaInDateRange
  walk,         \* fetchMediaInDateChunks
  daily,        \* fetchMediaDailyInRange
  result,       \* what the resource run returned
  hist,         \* history of the current resource run (for the properties)
  client,       \* ApiClient.fetchWithRetry: the call in progress
  prior         \* what is left of the process that ran before this one

cfgVars == <<batchSize, incremental, failFast, only>>
dbVars == <<syncLog, tables>>
envVars == <<feed, now, targetStartDate>>
frameVars == <<smart, chunks, range, walk, daily>>
vars == <<batchSize, incremental, failFast, only, syncLog, tables, pc, exitCode,
          resource, feed, now, targetStartDate, seen, sl, smart, chunks, range,
          walk, daily, result, hist, client, prior>>

\* The variables of the synchronisation process itself.
syncVars == <<batchSize, incremental, failFast, only, syncLog, tables, pc, exitCode,
              resource, feed, now, targetStartDate, seen, sl, smart, chunks, range,
              walk, daily, result, hist>>

Totals == [totalFetched |-> 0, totalUpserted |-> 0, latestTimestamp |-> Null]

IdleSlice ==
  [filter |-> NoFilter, skip |-> 0, totalFetched |-> 0, totalUpserted |-> 0,
   latestTimestamp |-> Null, oldestTimestamp |-> Null, hitLimit |-> FALSE,
   failOnLimit |-> FALSE, state |-> "idle",
   received |-> 0,   \* rows the server returned to this slice so far
   added |-> 0,      \* identities this slice added to the dedup set so far
   events |-> <<>>]  \* the page requests and upserts of this slice, in order

\* The locals of fetchAndUpsert(Media)BatchesInternal at its first line.
NewSlice(f, failOnLimit) ==
  [IdleSlice EXCEPT !.filter = f, !.failOnLimit = failOnLimit, !.state = "running"]

IdleChunks == [totalFetched |-> 0, totalUpserted |-> 0, latestTimestamp |-> Null,
               daysPerChunk |-> 0, startDate |-> 0, endDate |-> 0, chunkCount |-> 0]
IdleRange == [totalFetched |-> 0, totalUpserted |-> 0, latestTimestamp |-> Null,
              startDate |-> 0, currentStart |-> 0, currentEnd |-> 0, rangeChunkCount |-> 0]
IdleWalk == [totalFetched |-> 0, totalUpserted |-> 0, latestTimestamp |-> Null,
             startDate |-> 0, endDate |-> 0, chunkCount |-> 0, emptyChunks |-> 0,
             skippedWeeks |-> <<>>, i |-> 0]
IdleDaily == [totalFetched |-> 0, totalUpserted |-> 0, latestTimestamp |-> Null,
              currentDate |-> 0, rangeEnd |-> 0, dayStart |-> 0, hour |-> 0,
              caller |-> "none"]
NoResult == [totalFetched |-> 0, totalUpserted |-> 0, totalUnique |-> 0,
             latestTimestamp |-> Null]

\* History of one resource run.
NewHist(r) ==
  [cpBefore |-> syncLog[r],  \* the checkpoint when the run started
   logBefore |-> syncLog,    \* sync_log when the run started
   cpWrites |-> 0,           \* successful checkpoint writes of this run
   logCalls |-> 0,           \* calls of updateSyncLog in this run
   storeCalls |-> 0,         \* sync_log store calls of this run
   faithful |-> TRUE,        \* every response so far was the faithful one, no store error
   anyOrder |-> TRUE,        \* every response so far was a page of some row order, no error
   sent |-> {},              \* identities handed to upsertBatch so far
   dupUpsert |-> FALSE,      \* an identity was handed to upsertBatch twice
   stored |-> {},            \* identities upserted successfully
   gotRows |-> FALSE,        \* the server returned at least one row
   failCause |-> "none",     \* why the run failed
   hourSaturated |-> FALSE,  \* an hourly slice returned hitLimit
   hourStored |-> FALSE,     \* an hourly slice returned hitLimit after upserting rows
   sumFetched |-> 0,         \* the totalFetched of all slices so far, added up
   sumUpserted |-> 0,        \* the totalUpserted of all slices so far, added up
   swallowed |-> FALSE,      \* a drill-down failure was caught and skipped
   wins |-> <<>>,            \* the last two windows of the backward walk
   belowFloor |-> FALSE,     \* the media walk requested a window starting before the floor
   walkEnd |-> "none",       \* why the media walk ended: "empty", "floor" or "cap"
   hitNotDeferred |-> FALSE, \* a walk window returned hitLimit and was not deferred
   drilled |-> 0,            \* deferred windows whose drill-down was started
   subSlices |-> 0]          \* slices started by the drill-down in progress

\* The page sizes explored: the small ones, and one above the cap.
BatchSizes == (1..MaxBatch) \cup {apiLimit + 1}

InitialCheckpoints == {Null, Some(98)}
NowTimes == {389}
FloorDates == {0, 0 - 2100}

\* No fetchWithRetry call in progress.
IdleClient == [state |-> "idle", attempt |-> 0, slept |-> <<>>, errors |-> <<>>,
               out |-> Null]

\* No process ran before this one.
NoPrior ==
  [armed |-> FALSE,     \* whether a second process is to follow
   runs |-> 0,          \* processes that have ended
   feed |-> {},         \* the upstream of the first process
   floor |-> 0,         \* its MEDIA_SYNC_START_DATE
   crashed |-> FALSE,   \* whether it was killed between two slices
   cpBefore |-> Null,   \* the checkpoint it started from
   cpWrites |-> 0,      \* the checkpoint writes it made
   anyOrder |-> TRUE,   \* whether every answer it got was a page of some order
   faithful |-> TRUE,   \* whether every answer it got was that of a stable server
   rowsLeft |-> 0,      \* the rows it left in the table of its resource
   failCause |-> "none"]

InitSync ==
  /\ client = IdleClient
  /\ batchSize \in BatchSizes
  /\ incremental \in BOOLEAN
  /\ failFast \in BOOLEAN
  /\ only \in {"all", "IDX", "VOW", "MEDIA"}
  /\ \E cp \in InitialCheckpoints : syncLog = [r \in Resources |-> cp]
  /\ tables = [t \in {"property", "media"} |-> {}]
  /\ pc = "main"
  /\ exitCode = 0 - 1
  /\ resource = "none"
  /\ feed = {}
  /\ now = 0
  /\ targetStartDate = 0
  /\ seen = {}
  /\ sl = IdleSlice
  /\ smart = Totals
  /\ chunks = IdleChunks
  /\ range = IdleRange
  /\ walk = IdleWalk
  /\ daily = IdleDaily
  /\ result = NoResult
  /\ hist = NewHist("IDX")

Init ==
  /\ prior = NoPrior
  /\ InitSync


\* ------------------------------------------------------ slice executor
\* Whether the cap error is rethrown: fetchAndUpsertBatchesInternal throws
\* when failOnLimit is set, fetchAndUpsertMediaBatchesInternal only logs.
ThrowsOnCap(r, failOnLimit) == failOnLimit /\ ~IsMedia(r)

\* A test that lets the slice go on after a page that is not full.
IsShortPageNever(len, top) == FALSE

\* Lines 312-314 and 977-979: a page with fewer rows than were asked for
\* is the last one.
IsShortPage(len, top) == len < top

\* A loop that asks for the same page again.
NextSkipSame(skip, len) == skip

\* Lines 316 and 981: skip of the request after a full page.
NextSkip(skip, len) == skip + len

\* A test that stops the slice one row late.
ReachedLimitLate(skip) == skip > apiLimit

\* Lines 318-322 and 983-987: the next skip is at the cap.
ReachedLimit(skip) == skip >= apiLimit

\* One iteration of the while (hasMoreData) loop of
\* fetchAndUpsert(Media)BatchesInternal, given the answer to its page
\* request and the outcome of its upsert.  batch is what was handed to
\* upsertBatch, stored tells whether that upsert succeeded.
PageStep(r, s, sn, top, resp, storeOk, dataLen) ==
  IF resp.type = "error"
  THEN [sl |-> [s EXCEPT !.state = "threw"], seen |-> sn, batch |-> <<>>,
        stored |-> FALSE, cause |-> "transport"]
  ELSE IF resp.type = "cap"
  THEN [sl |-> [s EXCEPT !.hitLimit = TRUE,
                         !.state = IF ThrowsOnCap(r, s.failOnLimit)
                                   THEN "threw" ELSE "returned"],
        seen |-> sn, batch |-> <<>>, stored |-> FALSE,
        cause |-> IF ThrowsOnCap(r, s.failOnLimit) THEN "cap" ELSE "none"]
  ELSE IF Len(resp.value) = 0
  THEN [sl |-> [s EXCEPT !.state = "returned"], seen |-> sn, batch |-> <<>>,
        stored |-> FALSE, cause |-> "none"]
  ELSE
    LET value == resp.value
        oldest == OldestOf(value, s.oldestTimestamp)
        d == DedupPage(r, value, sn)
        n == Len(d.unique)
    IN  IF n > 0 /\ ~storeOk
        THEN [sl |-> [s EXCEPT !.oldestTimestamp = oldest, !.state = "threw"],
              seen |-> d.seen, batch |-> d.unique, stored |-> FALSE,
              cause |-> "store"]
        ELSE
          LET s1 == IF n > 0
                    THEN [s EXCEPT !.oldestTimestamp = oldest,
                                   !.totalFetched = @ + Len(value),
                                   !.totalUpserted = @ + upsertCount(dataLen, n),
                                   !.latestTimestamp =
                                      BatchLatest(@, findLatestTimestamp(d.unique))]
                    ELSE [s EXCEPT !.oldestTimestamp = oldest]
              s2 == IF IsShortPage(Len(value), top)
                    THEN [s1 EXCEPT !.state = "returned"]
                    ELSE IF ReachedLimit(NextSkip(s1.skip, Len(value)))
                         THEN [s1 EXCEPT !.skip = NextSkip(@, Len(value)),
                                         !.hitLimit = TRUE, !.state = "returned"]
                         ELSE [s1 EXCEPT !.skip = NextSkip(@, Len(value))]
          IN  [sl |-> s2, seen |-> d.seen, batch |-> d.unique, stored |-> n > 0,
               cause |-> "none"]

\* What the store may report as the number of returned rows of an upsert
\* of n rows.
StoreReports(n) == {0, n}

\* A run of one resource without --fail-fast is explored against a server
\* that orders, repeats and omits rows as it likes; a run over all three
\* resources, or with --fail-fast, against a server with a stable order.
StableServer == only = "all" \/ failFast

\* The answers of a server that orders the rows anew for every request,
\* and can fail.
OrderedResponses(rows, f, skip, top) ==
  { resp \in Responses(rows, f, skip, top) :
      resp.type = "error" \/ IsPageOfSomeOrder(rows, f, skip, top, resp) }

\* Where a second process is to follow, the first one is explored against
\* a server that orders the rows as it likes, and the second one against
\* a server with a stable order.
ServerAnswers(f, skip) ==
  IF prior.runs > 0 THEN StableResponses(feed, f, skip, batchSize)
  ELSE IF prior.armed THEN OrderedResponses(feed, f, skip, batchSize)
  ELSE IF StableServer THEN StableResponses(feed, f, skip, batchSize)
  ELSE Responses(feed, f, skip, batchSize)

SlicePcs == {"propFirst", "propChunk", "mediaIncr", "mediaRange", "mediaWalk",
             "mediaDay", "mediaHour"}

BatchIds(r, batch) == { Identity(r, batch[i]) : i \in 1..Len(batch) }

\* A page request of the slice in progress, its answer, and the handling
\* of that answer up to the next request.
SlicePage ==
  /\ pc \in SlicePcs
  /\ sl.state = "running"
  /\ IF sl.skip + batchSize > apiLimit /\ apiLimit - sl.skip <= 0
     THEN /\ sl' = [sl EXCEPT !.hitLimit = TRUE, !.state = "returned"]
          /\ UNCHANGED <<seen, tables, hist>>
     ELSE \E resp \in ServerAnswers(sl.filter, sl.skip), storeOk \in BOOLEAN :
            \E dataLen \in StoreReports(Len(DedupPage(resource, resp.value, seen).unique)) :
              LET out == PageStep(resource, sl, seen, batchSize, resp, storeOk, dataLen)
                  ids == BatchIds(resource, out.batch)
                  ev == [op |-> "request", skip |-> sl.skip]
                  up == [op |-> "upsert", skip |-> sl.skip]
              IN  /\ sl' = [out.sl EXCEPT
                       !.received = @ + Len(resp.value),
                       !.added = @ + Cardinality(out.seen) - Cardinality(seen),
                       !.events = IF out.stored THEN @ \o <<ev, up>> ELSE Append(@, ev)]
                  /\ seen' = out.seen
                  /\ tables' = IF out.stored
                               THEN [tables EXCEPT ![TableOf(resource)] =
                                       UpsertRows(resource, @, out.batch)]
                               ELSE tables
                  /\ hist' = [hist EXCEPT
                       !.faithful = @ /\ out.cause \notin {"transport", "store"}
                                      /\ resp = FaithfulResponse(feed, sl.filter, sl.skip, batchSize),
                       !.anyOrder = @ /\ out.cause \notin {"transport", "store"}
                                      /\ IsPageOfSomeOrder(feed, sl.filter, sl.skip,
                                                           batchSize, resp),
                       !.sent = @ \cup ids,
                       !.dupUpsert = @ \/ (ids \cap hist.sent # {})
                                       \/ Cardinality(ids) # Len(out.batch),
                       !.stored = IF out.stored THEN @ \cup ids ELSE @,
                       !.gotRows = @ \/ Len(resp.value) > 0,
                       !.sumFetched = @ + out.sl.totalFetched - sl.totalFetched,
                       !.sumUpserted = @ + out.sl.totalUpserted - sl.totalUpserted,
                       !.failCause = IF out.cause = "none" THEN @ ELSE out.cause]
  /\ UNCHANGED <<cfgVars, client, prior, syncLog, pc, exitCode, resource, envVars, frameVars, result>>


\* ----------------------------------------------------------- coordinator
Selected(r) == only = "all" \/ only = r

\* An order of main() with the media run before the VOW run.
NextOfMediaFirst(r) ==
  CASE r = "IDX" -> "MEDIA"
    [] r = "MEDIA" -> "VOW"
    [] OTHER -> "complete"

\* The order of main(): IDX, VOW, MEDIA, then '=== SYNC COMPLETE ==='.
NextOf(r) ==
  CASE r = "IDX" -> "VOW"
    [] r = "VOW" -> "MEDIA"
    [] OTHER -> "complete"

\* A run over all three resources and a run with --fail-fast are explored
\* with one-row feeds, a run over a single resource with feeds of up to
\* MaxRecords rows.
FeedBound == IF only = "all" \/ failFast THEN 1 ELSE MaxRecords

\* The floor dates explored (MEDIA_SYNC_START_DATE).
FloorsAt == IF only = "all" \/ failFast THEN {0} ELSE FloorDates

\* The upstream never deletes: the row that gave the stored checkpoint is
\* still there, with that timestamp or a later one.
FeedsAt(r) ==
  { S \in Feeds(r, FeedBound) :
      syncLog[r] # Null =>
        \E rec \in S : HasKeys(r, rec) /\ rec.ts >= Val(syncLog[r]) }

\* An upstream that changes between two processes.
UpstreamAnew(r) == FeedsAt(r)

\* The upstream of a process: unchanged since the process before it, if
\* there was one.
UpstreamAt(r) == IF prior.runs > 0 THEN {prior.feed} ELSE FeedsAt(r)
FloorsNow == IF prior.runs > 0 THEN {prior.floor} ELSE FloorsAt

\* The floor dates explored with the upstream rows f: the distant one, which
\* makes the walk long, with at most one row.
FloorsFor(f) == { floor \in FloorsNow : floor = 0 \/ Cardinality(f) <= 1 }

\* What a process leaves for the one after it of its upstream and its
\* environment.
Started(p, f, floor) ==
  IF p.armed /\ p.runs = 0 THEN [p EXCEPT !.feed = f, !.floor = floor] ELSE p

ResetRun ==
  /\ seen' = {}
  /\ sl' = IdleSlice
  /\ smart' = Totals
  /\ chunks' = IdleChunks
  /\ range' = IdleRange
  /\ walk' = IdleWalk
  /\ daily' = IdleDaily
  /\ feed' = {}
  /\ now' = 0
  /\ targetStartDate' = 0

\* A catch block that rethrows whatever the flags say.
RethrowsAlways(flag) == TRUE

\* processProperties 73 / processMedia 99, if (flags.failFast) throw err:
\* whether the failure of a resource run leaves the run's catch block.
Rethrows(flag) == flag

\* A catch block of main() that lets the process end by itself.
CatchExitCodeNatural(flag) == 0

\* main's catch, line 47, if (flags.failFast) process.exit(1): the exit
\* code of a process whose main() caught an error; without the flag the
\* process ends by itself, with code 0.
CatchExitCode(flag) == IF flag THEN 1 ELSE 0

\* main(), lines 24-31 and 45-48: initializeDatabase succeeds, or throws
\* into main's catch.
InitializeDatabase ==
  /\ pc = "main"
  /\ \E ok \in BOOLEAN :
       IF ok THEN pc' = "IDX" /\ UNCHANGED exitCode
       ELSE pc' = "exited" /\ exitCode' = CatchExitCode(failFast)
  /\ UNCHANGED <<cfgVars, client, prior, dbVars, resource, envVars, seen, sl, frameVars, result, hist>>

\* main(), lines 32-42: a resource that the flags exclude is passed over.
MainSkip ==
  /\ pc \in Resources
  /\ ~Selected(pc)
  /\ pc' = NextOf(pc)
  /\ UNCHANGED <<cfgVars, client, prior, dbVars, exitCode, resource, envVars, seen, sl, frameVars,
                 result, hist>>

\* main(), line 44, and the natural end of the process.
Complete ==
  /\ pc = "complete"
  /\ pc' = "exited"
  /\ exitCode' = 0
  /\ UNCHANGED <<cfgVars, client, prior, dbVars, resource, envVars, seen, sl, frameVars, result, hist>>

\* An update of sync_log that is not keyed by resourcetype.
updateSyncLogAnyRow(log, r, timestamp, ok) ==
  IF timestamp = Null THEN log
  ELSE IF ok THEN [x \in DOMAIN log |-> timestamp]
  ELSE log

\* updateSyncLog(resourceType, timestamp) with the outcome ok of its store
\* call: the sync_log after the call.
updateSyncLog(log, r, timestamp, ok) ==
  IF timestamp = Null THEN log
  ELSE IF ok THEN [log EXCEPT ![r] = timestamp]
  ELSE log

\* Whether updateSyncLog reaches its store call.
CallsStore(timestamp) == timestamp # Null

\* The checkpoint update without its guard.
WritesCheckpointUnguarded(res) == TRUE

\* processProperties / processMedia, the guard of the checkpoint update.
WritesCheckpoint(res) == res.latestTimestamp # Null

\* A checkpoint update whose failure leaves the try block of the run.
AfterCheckpointWriteThrowing(r, ok) == IF ok THEN NextOf(r) ELSE "runFailed"

\* processProperties 62-69 / processMedia 88-95: where control goes after
\* the call of updateSyncLog; its error is caught and logged on the spot.
AfterCheckpointWrite(r, ok) == NextOf(r)

\* processProperties 56-70 / processMedia 82-96: the run returned; the
\* checkpoint is written when a latest timestamp came back, and a failure
\* of that write is only logged.
UpdateCheckpoint ==
  /\ pc = "runReturned"
  /\ \E ok \in BOOLEAN :
       IF WritesCheckpoint(result)
       THEN /\ syncLog' = updateSyncLog(syncLog, resource, result.latestTimestamp, ok)
            /\ hist' = [hist EXCEPT
                 !.logCalls = @ + 1,
                 !.storeCalls = @ + (IF CallsStore(result.latestTimestamp) THEN 1 ELSE 0),
                 !.cpWrites = @ + (IF CallsStore(result.latestTimestamp) /\ ok THEN 1 ELSE 0)]
            /\ pc' = AfterCheckpointWrite(resource, ok)
       ELSE /\ UNCHANGED <<syncLog, hist>>
            /\ pc' = NextOf(resource)
  /\ ResetRun
  /\ UNCHANGED <<cfgVars, client, prior, tables, exitCode, resource, result>>

\* A catch block that saves the progress of the slice that threw.
ProcessFailedSavingProgress ==
  /\ pc = "runFailed"
  /\ IF Rethrows(failFast)
     THEN pc' = "exited" /\ exitCode' = CatchExitCode(failFast)
     ELSE pc' = NextOf(resource) /\ UNCHANGED exitCode
  /\ syncLog' = IF resource \in Resources
                THEN updateSyncLog(syncLog, resource, sl.latestTimestamp, TRUE)
                ELSE syncLog
  /\ ResetRun
  /\ UNCHANGED <<cfgVars, client, prior, tables, resource, result, hist>>

\* processProperties 71-74 / processMedia 97-100, and main's catch: the
\* run threw.
ProcessFailed ==
  /\ pc = "runFailed"
  /\ IF Rethrows(failFast)
     THEN pc' = "exited" /\ exitCode' = CatchExitCode(failFast)
     ELSE pc' = NextOf(resource) /\ UNCHANGED exitCode
  /\ ResetRun
  /\ UNCHANGED <<cfgVars, client, prior, dbVars, resource, result, hist>>

\* sync.js 21-22, the handlers of SIGINT and SIGTERM: process.exit(0),
\* run by the event loop while a slice awaits a page request or an upsert.
\* The process ends on the spot; what the store has committed stays.
Interrupt ==
  /\ pc \in SlicePcs
  /\ sl.state = "running"
  /\ pc' = "exited"
  /\ exitCode' = 0
  /\ ResetRun
  /\ UNCHANGED <<cfgVars, client, prior, dbVars, resource, result, hist>>

\* A slice threw outside the try block of the skipped-weeks loop: the
\* error leaves the resource run.
SliceThrew ==
  /\ pc \in SlicePcs
  /\ sl.state = "threw"
  /\ ~(pc \in {"mediaDay", "mediaHour"} /\ daily.caller = "walk")
  /\ pc' = "runFailed"
  /\ UNCHANGED <<cfgVars, client, prior, dbVars, exitCode, resource, envVars, seen, sl, frameVars,
                 result, hist>>


\* ------------------------------------------------- media: run start
Window(lo, hi) == [lo |-> lo, hi |-> hi]

\* A move that leaves endDate where it was.
StepBackKeepingEnd(startDate, endDate, days) ==
  [endDate |-> endDate, startDate |-> startDate - days * HoursPerDay]

\* The move of a backward walk to its next window: endDate = new
\* Date(startDate); startDate.setDate(startDate.getDate() - days).
StepBack(startDate, endDate, days) ==
  [endDate |-> startDate, startDate |-> startDate - days * HoursPerDay]
RangeFilter(lo, hi) == Filter("range", lo, hi)

\* The windows a backward walk has produced, the last two of them kept.
PushWindow(wins, w) == IF Len(wins) = 0 THEN <<w>> ELSE <<wins[Len(wins)], w>>

Accumulate(tot, res) ==
  [tot EXCEPT !.totalFetched = @ + res.totalFetched,
              !.totalUpserted = @ + res.totalUpserted,
              !.latestTimestamp = MergeLatest(@, res.latestTimestamp)]

\* new Date('2010-01-01'), the start of the range walk when no checkpoint
\* is stored.
Date2010 == 0 - 122712

\* processMedia 77-80, fetchMediaRecords 389-422, and
\* fetchMediaWithSmartPagination 441-466 or fetchMediaInDateChunks 606-635
\* up to the first page request.
StartMedia ==
  /\ pc = "MEDIA"
  /\ Selected("MEDIA")
  /\ resource' = "MEDIA"
  /\ result' = NoResult
  /\ seen' = {}
  /\ smart' = Totals
  /\ \E tokenOk \in BOOLEAN, logOk \in BOOLEAN, f \in UpstreamAt("MEDIA"),
        n \in NowTimes :
     \E floor \in FloorsFor(f) :
       IF ~tokenOk \/ (incremental /\ ~logOk)
       THEN /\ pc' = "runFailed"
            /\ hist' = [NewHist("MEDIA") EXCEPT
                          !.failCause = IF tokenOk THEN "synclog" ELSE "token"]
            /\ UNCHANGED <<feed, now, targetStartDate, sl, walk, prior>>
       ELSE /\ feed' = f
            /\ prior' = Started(prior, f, floor)
            /\ now' = n
            /\ targetStartDate' = floor
            /\ hist' = NewHist("MEDIA")
            /\ IF incremental /\ syncLog["MEDIA"] # Null
               THEN /\ sl' = NewSlice(Filter("gt", Val(syncLog["MEDIA"]), 0), FALSE)
                    /\ pc' = "mediaIncr"
                    /\ UNCHANGED walk
               ELSE /\ walk' = [IdleWalk EXCEPT
                                  !.endDate = n + HoursPerDay,
                                  !.startDate = n + HoursPerDay
                                                  - mediaDaysPerChunk * HoursPerDay]
                    /\ pc' = "walkLoop"
                    /\ UNCHANGED sl
  /\ UNCHANGED <<cfgVars, client, dbVars, exitCode, chunks, range, daily>>

\* ------------------------------------- media: fetchMediaInDateChunks
\* while (chunkCount < maxChunks), lines 637-654: the next window's slice
\* is started, or the loop is left.
WalkLoop ==
  /\ pc = "walkLoop"
  /\ IF walk.chunkCount < mediaMaxChunks
     THEN /\ walk' = [walk EXCEPT !.chunkCount = @ + 1]
          /\ sl' = NewSlice(RangeFilter(walk.startDate, walk.endDate), FALSE)
          /\ pc' = "mediaWalk"
          /\ hist' = [hist EXCEPT
               !.wins = PushWindow(@, Window(walk.startDate, walk.endDate)),
               !.belowFloor = @ \/ walk.startDate < targetStartDate]
     ELSE /\ pc' = "walkSkipped"
          /\ hist' = [hist EXCEPT !.walkEnd = "cap"]
          /\ UNCHANGED <<walk, sl>>
  /\ UNCHANGED <<cfgVars, client, prior, dbVars, exitCode, resource, envVars, seen, smart, chunks,
                 range, daily, result>>

\* Whether the window's result counts as an empty chunk (line 670).
IsEmptyChunk(res) == res.totalFetched = 0

\* Whether the window is put on skippedWeeks (lines 670, 684).
IsDeferred(res) == ~IsEmptyChunk(res) /\ res.hitLimit

\* The totals after one window (lines 662-667 and 701-707).
WalkTotals(w, res) ==
  IF IsDeferred(res) THEN Accumulate(Accumulate(w, res), res) ELSE Accumulate(w, res)

\* A test that only recognises a startDate that lands on the target.
ReachedTargetExactly(startDate, target) == startDate = target

\* Whether the walk ends once startDate has been moved back (line 719).
ReachedTarget(startDate, target) == startDate <= target

\* Lines 656-722: the window's slice returned.
WalkAfterChunk ==
  /\ pc = "mediaWalk"
  /\ sl.state = "returned"
  /\ LET w1 == WalkTotals(walk, sl)
         w2 == [w1 EXCEPT
                  !.emptyChunks = IF IsEmptyChunk(sl) THEN @ + 1 ELSE 0,
                  !.skippedWeeks =
                     IF IsDeferred(sl)
                     THEN Append(@, [startDate |-> walk.startDate,
                                     endDate |-> walk.endDate,
                                     recordsFound |-> sl.totalFetched])
                     ELSE @]
         next == StepBack(walk.startDate, walk.endDate, mediaDaysPerChunk)
         newStart == next.startDate
         h1 == [hist EXCEPT
                  !.hitNotDeferred = @ \/ (sl.hitLimit /\ ~IsDeferred(sl))]
     IN  IF IsEmptyChunk(sl) /\ w2.emptyChunks >= mediaMaxEmptyChunks
         THEN /\ walk' = w2
              /\ pc' = "walkSkipped"
              /\ hist' = [h1 EXCEPT !.walkEnd = "empty"]
         ELSE /\ walk' = [w2 EXCEPT !.endDate = next.endDate, !.startDate = newStart]
              /\ IF ReachedTarget(newStart, targetStartDate)
                 THEN pc' = "walkSkipped" /\ hist' = [h1 EXCEPT !.walkEnd = "floor"]
                 ELSE pc' = "walkLoop" /\ hist' = h1
  /\ sl' = IdleSlice
  /\ UNCHANGED <<cfgVars, client, prior, dbVars, exitCode, resource, envVars, seen, smart, chunks,
                 range, daily, result>>

\* A drill-down that starts with a dedup set of its own.
DrillDownSeenFresh(sn) == {}

\* Lines 742-748: the drill-down is handed the walk's seenMediaKeys.
DrillDownSeen(sn) == sn

\* Lines 734-749 and 766-777: the next skipped week is drilled down, or
\* the walk returns its totals.
WalkSkippedLoop ==
  /\ pc = "walkSkipped"
  /\ IF walk.i < Len(walk.skippedWeeks)
     THEN LET week == walk.skippedWeeks[walk.i + 1]
          IN  /\ daily' = [IdleDaily EXCEPT !.currentDate = week.startDate,
                                            !.rangeEnd = week.endDate,
                                            !.caller = "walk"]
              /\ hist' = [hist EXCEPT !.drilled = @ + 1, !.subSlices = 0]
              /\ seen' = DrillDownSeen(seen)
              /\ pc' = "dailyLoop"
              /\ UNCHANGED result
     ELSE /\ result' = [totalFetched |-> walk.totalFetched,
                        totalUpserted |-> walk.totalUpserted,
                        totalUnique |-> Cardinality(seen),
                        latestTimestamp |-> walk.latestTimestamp]
          /\ pc' = "runReturned"
          /\ UNCHANGED <<daily, hist, seen>>
  /\ UNCHANGED <<cfgVars, client, prior, dbVars, exitCode, resource, envVars, sl, smart, chunks,
                 range, walk>>

\* Lines 751-758: the drill-down of a skipped week returned.
WalkAfterDaily ==
  /\ pc = "dailyReturn"
  /\ daily.caller = "walk"
  /\ walk' = [Accumulate(walk, daily) EXCEPT !.i = @ + 1]
  /\ daily' = IdleDaily
  /\ pc' = "walkSkipped"
  /\ hist' = [hist EXCEPT !.subSlices = 0]
  /\ UNCHANGED <<cfgVars, client, prior, dbVars, exitCode, resource, envVars, seen, sl, smart, chunks,
                 range, result>>

\* Lines 759-762: the drill-down of a skipped week threw; the error is
\* logged and the loop goes on with the next week.
WalkDailyFailed ==
  /\ pc \in {"mediaDay", "mediaHour"}
  /\ daily.caller = "walk"
  /\ sl.state = "threw"
  /\ walk' = [walk EXCEPT !.i = @ + 1]
  /\ daily' = IdleDaily
  /\ sl' = IdleSlice
  /\ pc' = "walkSkipped"
  /\ hist' = [hist EXCEPT !.swallowed = TRUE, !.subSlices = 0]
  /\ UNCHANGED <<cfgVars, client, prior, dbVars, exitCode, resource, envVars, seen, smart, chunks,
                 range, result>>


\* ------------------------------------- media: fetchMediaDailyInRange
\* Date#setHours(h, 0, 0, 0) on a copy of d: hour h of d's calendar day
\* (h = 24 gives 00:00 of the next day).
SetHours(d, h) == d - (d % HoursPerDay) + h

\* while (currentDate < rangeEnd), lines 797-814.
DailyLoop ==
  /\ pc = "dailyLoop"
  /\ IF daily.currentDate < daily.rangeEnd
     THEN /\ daily' = [daily EXCEPT !.dayStart = daily.currentDate]
          /\ sl' = NewSlice(RangeFilter(daily.currentDate,
                                        daily.currentDate + HoursPerDay), FALSE)
          /\ hist' = [hist EXCEPT !.subSlices = @ + 1]
          /\ pc' = "mediaDay"
     ELSE /\ pc' = "dailyReturn"
          /\ UNCHANGED <<daily, sl, hist>>
  /\ UNCHANGED <<cfgVars, client, prior, dbVars, exitCode, resource, envVars, seen, smart, chunks,
                 range, walk, result>>

\* Lines 816-820 and 855-865: the day's slice returned.
DailyAfterDay ==
  /\ pc = "mediaDay"
  /\ sl.state = "returned"
  /\ IF sl.hitLimit
     THEN /\ daily' = [daily EXCEPT !.hour = 0]
          /\ pc' = "hourLoop"
     ELSE /\ daily' = [Accumulate(daily, sl) EXCEPT !.currentDate = @ + HoursPerDay]
          /\ pc' = "dailyLoop"
  /\ sl' = IdleSlice
  /\ UNCHANGED <<cfgVars, client, prior, dbVars, exitCode, resource, envVars, seen, smart, chunks,
                 range, walk, result, hist>>

\* for (hour = 0; hour < 24; hour++), lines 822-839, and line 865 after
\* the last hour.
HourLoop ==
  /\ pc = "hourLoop"
  /\ IF daily.hour < HoursPerDay
     THEN /\ sl' = NewSlice(RangeFilter(SetHours(daily.dayStart, daily.hour),
                                        SetHours(daily.dayStart, daily.hour + 1)), FALSE)
          /\ hist' = [hist EXCEPT !.subSlices = @ + 1]
          /\ pc' = "mediaHour"
          /\ UNCHANGED daily
     ELSE /\ daily' = [daily EXCEPT !.currentDate = @ + HoursPerDay, !.hour = 0]
          /\ pc' = "dailyLoop"
          /\ UNCHANGED <<sl, hist>>
  /\ UNCHANGED <<cfgVars, client, prior, dbVars, exitCode, resource, envVars, seen, smart, chunks,
                 range, walk, result>>

\* Totals that leave out an hour that reached the cap.
HourTotalsUnlessSaturated(d, res) == IF res.hitLimit THEN d ELSE Accumulate(d, res)

\* Lines 847-852: the hour's counts and latest timestamp are added to the
\* totals, whether or not the hour reached the cap.
HourTotals(d, res) == Accumulate(d, res)

\* Lines 841-853: the hour's slice returned; a saturated hour is logged.
DailyAfterHour ==
  /\ pc = "mediaHour"
  /\ sl.state = "returned"
  /\ daily' = [HourTotals(daily, sl) EXCEPT !.hour = @ + 1]
  /\ hist' = [hist EXCEPT !.hourSaturated = @ \/ sl.hitLimit,
                          !.hourStored = @ \/ (sl.hitLimit /\ sl.totalUpserted > 0)]
  /\ sl' = IdleSlice
  /\ pc' = "hourLoop"
  /\ UNCHANGED <<cfgVars, client, prior, dbVars, exitCode, resource, envVars, seen, smart, chunks,
                 range, walk, result>>

\* ------------------------------- media: fetchMediaWithSmartPagination
\* Lines 468-503 and 505-516: the incremental slice returned.
MediaAfterIncr ==
  /\ pc = "mediaIncr"
  /\ sl.state = "returned"
  /\ LET tot == [smart EXCEPT !.totalFetched = @ + sl.totalFetched,
                              !.totalUpserted = @ + sl.totalUpserted,
                              !.latestTimestamp = sl.latestTimestamp]
         oldestFetched == IF sl.oldestTimestamp # Null
                          THEN Val(sl.oldestTimestamp) ELSE now
     IN  \E logOk \in BOOLEAN :
           LET startFrom == IF syncLog["MEDIA"] # Null
                            THEN Val(syncLog["MEDIA"]) ELSE Date2010
           IN  IF ~sl.hitLimit
               THEN /\ result' = [totalFetched |-> tot.totalFetched,
                                  totalUpserted |-> tot.totalUpserted,
                                  totalUnique |-> Cardinality(seen),
                                  latestTimestamp |-> tot.latestTimestamp]
                    /\ smart' = tot
                    /\ pc' = "runReturned"
                    /\ UNCHANGED <<range, hist>>
               ELSE IF ~logOk
               THEN /\ pc' = "runFailed"
                    /\ hist' = [hist EXCEPT !.failCause = "synclog"]
                    /\ smart' = tot
                    /\ UNCHANGED <<range, result>>
               ELSE IF oldestFetched > startFrom
               THEN /\ range' = [IdleRange EXCEPT
                                   !.startDate = startFrom,
                                   !.currentEnd = oldestFetched,
                                   !.currentStart = oldestFetched
                                      - mediaDaysPerChunk * HoursPerDay]
                    /\ smart' = tot
                    /\ pc' = "rangeLoop"
                    /\ hist' = [hist EXCEPT !.wins = <<>>]
                    /\ UNCHANGED result
               ELSE /\ result' = [totalFetched |-> tot.totalFetched,
                                  totalUpserted |-> tot.totalUpserted,
                                  totalUnique |-> Cardinality(seen),
                                  latestTimestamp |-> tot.latestTimestamp]
                    /\ smart' = tot
                    /\ pc' = "runReturned"
                    /\ UNCHANGED <<range, hist>>
  /\ sl' = IdleSlice
  /\ UNCHANGED <<cfgVars, client, prior, dbVars, exitCode, resource, envVars, seen, chunks, walk,
                 daily>>

\* Lines 496-516: fetchMediaInDateRange returned.
MediaAfterRange ==
  /\ pc = "rangeReturn"
  /\ LET tot == Accumulate(smart, range)
     IN  /\ smart' = tot
         /\ result' = [totalFetched |-> tot.totalFetched,
                       totalUpserted |-> tot.totalUpserted,
                       totalUnique |-> Cardinality(seen),
                       latestTimestamp |-> tot.latestTimestamp]
  /\ pc' = "runReturned"
  /\ UNCHANGED <<cfgVars, client, prior, dbVars, exitCode, resource, envVars, seen, sl, chunks, range,
                 walk, daily, hist>>

\* -------------------------------------- media: fetchMediaInDateRange
\* while (currentEnd > startDate && rangeChunkCount < 100), lines 538-557.
RangeLoop ==
  /\ pc = "rangeLoop"
  /\ IF range.currentEnd > range.startDate /\ range.rangeChunkCount < rangeMaxChunks
     THEN LET cs == Max(range.currentStart, range.startDate)
          IN  /\ range' = [range EXCEPT !.rangeChunkCount = @ + 1, !.currentStart = cs]
              /\ sl' = NewSlice(RangeFilter(cs, range.currentEnd), FALSE)
              /\ hist' = [hist EXCEPT !.wins = PushWindow(@, Window(cs, range.currentEnd))]
              /\ pc' = "mediaRange"
     ELSE /\ pc' = "rangeReturn"
          /\ UNCHANGED <<range, sl, hist>>
  /\ UNCHANGED <<cfgVars, client, prior, dbVars, exitCode, resource, envVars, seen, smart, chunks,
                 walk, daily, result>>

\* The move to the next older weekly chunk, lines 588-591.
RangeAdvance(rg) ==
  LET next == StepBack(rg.currentStart, rg.currentEnd, mediaDaysPerChunk)
  IN  [rg EXCEPT !.currentEnd = next.endDate, !.currentStart = next.startDate]

\* Lines 559-592: the weekly chunk's slice returned; a saturated chunk is
\* handed to fetchMediaDailyInRange at once.
RangeAfterChunk ==
  /\ pc = "mediaRange"
  /\ sl.state = "returned"
  /\ IF sl.hitLimit
     THEN /\ daily' = [IdleDaily EXCEPT !.currentDate = range.currentStart,
                                        !.rangeEnd = range.currentEnd,
                                        !.caller = "range"]
          /\ hist' = [hist EXCEPT !.subSlices = 0]
          /\ pc' = "dailyLoop"
          /\ UNCHANGED range
     ELSE /\ range' = RangeAdvance(Accumulate(range, sl))
          /\ pc' = "rangeLoop"
          /\ UNCHANGED <<daily, hist>>
  /\ sl' = IdleSlice
  /\ UNCHANGED <<cfgVars, client, prior, dbVars, exitCode, resource, envVars, seen, smart, chunks,
                 walk, result>>

\* Lines 573-578 and 588-591: the daily breakdown of a weekly chunk
\* returned.
RangeAfterDaily ==
  /\ pc = "dailyReturn"
  /\ daily.caller = "range"
  /\ range' = RangeAdvance(Accumulate(range, daily))
  /\ daily' = IdleDaily
  /\ pc' = "rangeLoop"
  /\ hist' = [hist EXCEPT !.subSlices = 0]
  /\ UNCHANGED <<cfgVars, client, prior, dbVars, exitCode, resource, envVars, seen, sl, smart, chunks,
                 walk, result>>


\* ------------------------------------------- listings: propertySync.js
\* Twice the expectedRecords argument, in rows of the scaled cap: 100000
\* for IDX, 250000 for VOW.
ExpectedTimes2(r) == IF r = "IDX" THEN 2 * apiLimit ELSE 5 * apiLimit

\* expectedRecords > 1000000 ? 7 : expectedRecords > 100000 ? 30 : 90
InitialDaysPerChunk(r) ==
  IF ExpectedTimes2(r) > 20 * apiLimit THEN 7
  ELSE IF ExpectedTimes2(r) > 2 * apiLimit THEN 30 ELSE 90

\* totalFetched >= 99000
NearLimit(n) == n * 100 >= apiLimit * 99

\* seenListingKeys.size >= expectedRecords * 1.2
FetchedExpected(r, size) == size * 10 >= ExpectedTimes2(r) * 6

\* new Date('2000-01-01')
Date2000 == 0 - 210384

\* processProperties 51-54, fetchIDXProperties / fetchVOWProperties 21-71
\* and fetchWithSmartPagination 76-91 up to the first page request.
StartProperties ==
  /\ pc \in {"IDX", "VOW"}
  /\ Selected(pc)
  /\ resource' = pc
  /\ result' = NoResult
  /\ seen' = {}
  /\ smart' = Totals
  /\ \E tokenOk \in BOOLEAN, logOk \in BOOLEAN, f \in UpstreamAt(pc), n \in NowTimes :
       IF ~tokenOk \/ (incremental /\ ~logOk)
       THEN /\ pc' = "runFailed"
            /\ hist' = [NewHist(pc) EXCEPT
                          !.failCause = IF tokenOk THEN "synclog" ELSE "token"]
            /\ UNCHANGED <<feed, now, sl, prior>>
       ELSE /\ feed' = f
            /\ prior' = Started(prior, f, 0)
            /\ now' = n
            /\ hist' = NewHist(pc)
            /\ sl' = NewSlice(IF incremental /\ syncLog[pc] # Null
                              THEN Filter("gt", Val(syncLog[pc]), 0)
                              ELSE NoFilter, FALSE)
            /\ pc' = "propFirst"
  /\ UNCHANGED <<cfgVars, client, dbVars, exitCode, targetStartDate, chunks, range, walk, daily>>

\* fetchWithSmartPagination 93-134: the first slice returned.
PropAfterFirst ==
  /\ pc = "propFirst"
  /\ sl.state = "returned"
  /\ LET tot == [smart EXCEPT !.totalFetched = @ + sl.totalFetched,
                              !.totalUpserted = @ + sl.totalUpserted,
                              !.latestTimestamp = sl.latestTimestamp]
         beforeDate == IF sl.oldestTimestamp # Null THEN Val(sl.oldestTimestamp) ELSE now
         days == InitialDaysPerChunk(resource)
     IN  /\ smart' = tot
         /\ IF sl.hitLimit \/ NearLimit(tot.totalFetched)
            THEN /\ chunks' = [IdleChunks EXCEPT
                                 !.daysPerChunk = days,
                                 !.endDate = beforeDate,
                                 !.startDate = beforeDate - days * HoursPerDay]
                 /\ pc' = "chunkLoop"
                 /\ hist' = [hist EXCEPT !.wins = <<>>]
                 /\ UNCHANGED result
            ELSE /\ result' = [totalFetched |-> tot.totalFetched,
                               totalUpserted |-> tot.totalUpserted,
                               totalUnique |-> Cardinality(seen),
                               latestTimestamp |-> tot.latestTimestamp]
                 /\ pc' = "runReturned"
                 /\ UNCHANGED <<chunks, hist>>
  /\ sl' = IdleSlice
  /\ UNCHANGED <<cfgVars, client, prior, dbVars, exitCode, resource, envVars, seen, range, walk, daily>>

\* fetchOlderRecordsInChunks, while (chunkCount < maxChunks), lines 155-170.
ChunkLoop ==
  /\ pc = "chunkLoop"
  /\ IF chunks.chunkCount < propMaxChunks
     THEN /\ chunks' = [chunks EXCEPT !.chunkCount = @ + 1]
          /\ sl' = NewSlice(RangeFilter(chunks.startDate, chunks.endDate), TRUE)
          /\ hist' = [hist EXCEPT
               !.wins = PushWindow(@, Window(chunks.startDate, chunks.endDate))]
          /\ pc' = "propChunk"
     ELSE /\ pc' = "chunksReturn"
          /\ UNCHANGED <<chunks, sl, hist>>
  /\ UNCHANGED <<cfgVars, client, prior, dbVars, exitCode, resource, envVars, seen, smart, range, walk,
                 daily, result>>

\* Math.max(1, Math.floor(daysPerChunk / 2))
HalveDays(d) == Max(1, d \div 2)

\* fetchOlderRecordsInChunks 172-214: the chunk's slice returned.
PropAfterChunk ==
  /\ pc = "propChunk"
  /\ sl.state = "returned"
  /\ LET c1 == Accumulate(chunks, sl)
         days == IF sl.totalFetched # 0 /\ sl.hitLimit
                 THEN HalveDays(chunks.daysPerChunk) ELSE chunks.daysPerChunk
         next == StepBack(chunks.startDate, chunks.endDate, days)
         c2 == [c1 EXCEPT !.daysPerChunk = days,
                          !.endDate = next.endDate,
                          !.startDate = next.startDate]
     IN  /\ chunks' = c2
         /\ IF sl.totalFetched = 0
            THEN pc' = IF c2.startDate < Date2000 THEN "chunksReturn" ELSE "chunkLoop"
            ELSE pc' = IF FetchedExpected(resource, Cardinality(seen))
                       THEN "chunksReturn" ELSE "chunkLoop"
  /\ sl' = IdleSlice
  /\ UNCHANGED <<cfgVars, client, prior, dbVars, exitCode, resource, envVars, seen, smart, range, walk,
                 daily, result, hist>>

\* fetchWithSmartPagination 115-134: fetchOlderRecordsInChunks returned.
PropAfterChunks ==
  /\ pc = "chunksReturn"
  /\ LET tot == Accumulate(smart, chunks)
     IN  /\ smart' = tot
         /\ result' = [totalFetched |-> tot.totalFetched,
                       totalUpserted |-> tot.totalUpserted,
                       totalUnique |-> Cardinality(seen),
                       latestTimestamp |-> tot.latestTimestamp]
  /\ pc' = "runReturned"
  /\ UNCHANGED <<cfgVars, client, prior, dbVars, exitCode, resource, envVars, seen, sl, chunks, range,
                 walk, daily, hist>>

\* ------------------------------------------------------ specification
Next ==
  \/ InitializeDatabase
  \/ MainSkip
  \/ StartProperties
  \/ StartMedia
  \/ SlicePage
  \/ SliceThrew
  \/ PropAfterFirst
  \/ ChunkLoop
  \/ PropAfterChunk
  \/ PropAfterChunks
  \/ MediaAfterIncr
  \/ MediaAfterRange
  \/ RangeLoop
  \/ RangeAfterChunk
  \/ RangeAfterDaily
  \/ WalkLoop
  \/ WalkAfterChunk
  \/ WalkSkippedLoop
  \/ WalkAfterDaily
  \/ WalkDailyFailed
  \/ DailyLoop
  \/ DailyAfterDay
  \/ HourLoop
  \/ DailyAfterHour
  \/ UpdateCheckpoint
  \/ ProcessFailed
  \/ Interrupt
  \/ Complete

Spec == Init /\ [][Next]_vars

\* ------------------------------------------------- a second process
\* Whether the resource run in progress is between two slices: in one of
\* its loops, or at the return of a slice.
BetweenSlices ==
  \/ pc \in {"chunkLoop", "chunksReturn", "rangeLoop", "rangeReturn", "walkLoop",
              "walkSkipped", "dailyLoop", "hourLoop", "dailyReturn"}
  \/ pc \in SlicePcs /\ sl.state = "returned"

\* The process is killed between two slices of a resource run: what it
\* held in memory is gone, what the store has committed stays.
Crash ==
  /\ prior.armed
  /\ prior.runs = 0
  /\ BetweenSlices
  /\ pc' = "exited"
  /\ exitCode' = 137
  /\ prior' = [prior EXCEPT !.crashed = TRUE]
  /\ ResetRun
  /\ UNCHANGED <<cfgVars, client, dbVars, resource, result, hist>>

\* node sync.js is started again with the same flags and environment,
\* after the process before it has ended: main() from its first line,
\* against the store as that process left it.
Rerun ==
  /\ prior.armed
  /\ prior.runs = 0
  /\ pc = "exited"
  /\ resource \in Resources
  /\ pc' = "main"
  /\ exitCode' = 0 - 1
  /\ resource' = "none"
  /\ result' = NoResult
  /\ hist' = NewHist("IDX")
  /\ prior' = [prior EXCEPT !.runs = 1,
                            !.cpBefore = hist.cpBefore,
                            !.cpWrites = hist.cpWrites,
                            !.anyOrder = hist.anyOrder,
                            !.faithful = hist.faithful,
                            !.rowsLeft = Cardinality(tables[TableOf(resource)]),
                            !.failCause = hist.failCause]
  /\ UNCHANGED <<cfgVars, client, dbVars, envVars, seen, sl, frameVars>>

\* A process that another one is to follow; a run of one resource.
InitRerun ==
  /\ prior = [NoPrior EXCEPT !.armed = TRUE]
  /\ InitSync
  /\ only \in {"IDX", "MEDIA"}
  /\ ~failFast

NextRerun == Next \/ Crash \/ Rerun

RerunSpec == InitRerun /\ [][NextRerun]_vars

\* ---------------------------------------------------- fetchWithRetry
\* ApiClient's constructor defaults, which fetchODataPage uses.
retryAttempts == 3
retryDelay == 500

\* What one HTTP attempt can come to: a response whose JSON body is
\* returned, or an error thrown by fetch, by the !response.ok branch or by
\* response.json().
Bodies == {"page", "empty"}
AttemptErrors == {"network", "HTTP 400", "HTTP 429", "HTTP 500", "invalid json"}

\* The statuses 4xx other than 429, among the errors of an attempt.
PermanentErrors == {"HTTP 400"}

\* A retry loop that sleeps after every failed attempt.
MayRetryAlways(attempt) == TRUE

\* fetchWithRetry 45: if (attempt < this.retryAttempts).
MayRetry(attempt) == attempt < retryAttempts

\* fetchWithRetry 46: this.retryDelay * Math.pow(2, attempt - 1).
DelayAfter(attempt) == retryDelay * 2 ^ (attempt - 1)

\* fetchWithRetry 19 and 53-54: attempt++ and the loop test; when the loop
\* is left, lastError is thrown.
LoopAgain(c) ==
  IF c.attempt + 1 <= retryAttempts
  THEN [c EXCEPT !.state = "attempt", !.attempt = @ + 1]
  ELSE [c EXCEPT !.state = "threw", !.attempt = @ + 1,
                 !.out = Some(c.errors[Len(c.errors)])]

\* fetchWithRetry 16-19: the call, up to its first attempt.
FetchCall ==
  /\ client.state = "idle"
  /\ client' = [IdleClient EXCEPT !.state = "attempt", !.attempt = 1]
  /\ UNCHANGED <<syncVars, prior>>

\* fetchWithRetry 20-45, one turn of the loop up to its sleep: the attempt
\* returns a body, or fails; the failure is kept as lastError (the last of
\* errors) and either a sleep follows or the loop goes on at once.
FetchAttempt ==
  /\ client.state = "attempt"
  /\ \/ \E body \in Bodies :
          client' = [client EXCEPT !.state = "returned", !.out = Some(body)]
     \/ \E error \in AttemptErrors :
          LET failed == [client EXCEPT !.errors = Append(@, error)]
          IN  IF MayRetry(client.attempt)
              THEN client' = [failed EXCEPT !.state = "sleeping"]
              ELSE client' = LoopAgain(failed)
  /\ UNCHANGED <<syncVars, prior>>

\* fetchWithRetry 46-48: the sleep, and the loop going on after it.
FetchSleep ==
  /\ client.state = "sleeping"
  /\ client' = LoopAgain([client EXCEPT !.slept = Append(@, DelayAfter(client.attempt))])
  /\ UNCHANGED <<syncVars, prior>>

\* A process that has a page request to make: one configuration of the
\* synchronisation, at its start.
InitRetry ==
  /\ Init
  /\ batchSize = 1
  /\ ~incremental
  /\ ~failFast
  /\ only = "all"
  /\ syncLog = [r \in Resources |-> Null]

NextRetry == FetchCall \/ FetchAttempt \/ FetchSleep

RetrySpec == InitRetry /\ [][NextRetry]_vars

\* ------------------------------- the first slice at the source's scale
\* The cap and the threshold of fetchWithSmartPagination as the source has
\* them, for the decision that follows the first slice of a listing run.
sourceLimit == 100000
sourceNear == 99000

\* Page sizes that divide the cap and that do not.
SourceBatchSizes == {1000, 30000}

\* The rows of a page: none, half a page, a full page.
SourcePageLengths(top) == {0, top \div 2, top}

\* Line 97: totalFetched >= 99000.
NearSourceLimit(n) == n >= sourceNear

\* Lines 262-324 on row counts alone: a page of len rows, all of them new
\* to the dedup set and upserted.
CountPage(s, top, len) ==
  IF len = 0 THEN [s EXCEPT !.state = "returned"]
  ELSE LET s1 == [s EXCEPT !.totalFetched = @ + len, !.totalUpserted = @ + len,
                           !.received = @ + len, !.added = @ + len]
       IN  IF IsShortPage(len, top) THEN [s1 EXCEPT !.state = "returned"]
           ELSE IF NextSkip(s1.skip, len) >= sourceLimit
           THEN [s1 EXCEPT !.skip = NextSkip(@, len), !.hitLimit = TRUE,
                           !.state = "returned"]
           ELSE [s1 EXCEPT !.skip = NextSkip(@, len)]

\* Lines 239-338: one turn of the loop of the first slice; a request that
\* reaches beyond the cap is answered with 'total exceeds 100000', which
\* the slice takes as hitLimit (failOnLimit is false).
FirstSlicePage ==
  /\ pc = "propFirst"
  /\ sl.state = "running"
  /\ IF sl.skip + batchSize > sourceLimit
     THEN sl' = [sl EXCEPT !.hitLimit = TRUE, !.state = "returned"]
     ELSE \E len \in SourcePageLengths(batchSize) : sl' = CountPage(sl, batchSize, len)
  /\ UNCHANGED <<cfgVars, client, prior, dbVars, pc, exitCode, resource, envVars, seen,
                 frameVars, result, hist>>

\* Lines 93-121: the first slice returned; the date chunks follow, or the
\* run returns.
FirstSliceDecide ==
  /\ pc = "propFirst"
  /\ sl.state = "returned"
  /\ LET tot == [smart EXCEPT !.totalFetched = @ + sl.totalFetched,
                              !.totalUpserted = @ + sl.totalUpserted]
     IN  /\ smart' = tot
         /\ pc' = IF sl.hitLimit \/ NearSourceLimit(tot.totalFetched)
                  THEN "chunkLoop" ELSE "runReturned"
  /\ sl' = IdleSlice
  /\ UNCHANGED <<cfgVars, client, prior, dbVars, exitCode, resource, envVars, seen, chunks,
                 range, walk, daily, result, hist>>

\* An incremental IDX or VOW run with a checkpoint, at its first page
\* request.
InitFirstSlice ==
  /\ prior = NoPrior
  /\ client = IdleClient
  /\ batchSize \in SourceBatchSizes
  /\ incremental = TRUE
  /\ failFast = FALSE
  /\ only \in {"IDX", "VOW"}
  /\ syncLog = [r \in Resources |-> Some(98)]
  /\ tables = [t \in {"property", "media"} |-> {}]
  /\ pc = "propFirst"
  /\ exitCode = 0 - 1
  /\ resource = only
  /\ feed = {}
  /\ now = 389
  /\ targetStartDate = 0
  /\ seen = {}
  /\ sl = NewSlice(Filter("gt", 98, 0), FALSE)
  /\ smart = Totals
  /\ chunks = IdleChunks
  /\ range = IdleRange
  /\ walk = IdleWalk
  /\ daily = IdleDaily
  /\ result = NoResult
  /\ hist = NewHist(only)

NextFirstSlice == FirstSlicePage \/ FirstSliceDecide

FirstSliceSpec == InitFirstSlice /\ [][NextFirstSlice]_vars

\* ------------------------------------------------------------ properties
\* C1: after a successful full (non-incremental) MEDIA run against an
\* unchanged upstream, with no saturated hourly slice and a walk that ended
\* on the floor date (not on the empty-chunk rule or the chunk cap), every
\* upstream row that has both key fields and a timestamp in
\* [floor date, run start + 1 day) is in the media table.
C1FullMediaCoverage ==
  (/\ pc = "runReturned"
   /\ resource = "MEDIA"
   /\ ~incremental
   /\ hist.faithful
   /\ ~hist.hourSaturated
   /\ ~hist.swallowed
   /\ hist.walkEnd = "floor")
  => \A rec \in feed :
       (/\ HasKeys("MEDIA", rec)
        /\ rec.ts >= targetStartDate
        /\ rec.ts < now + HoursPerDay) => rec \in tables["media"]

C3NoTimestampNoWrite ==
  [][(pc = "runReturned" /\ result.latestTimestamp = Null)
       => /\ syncLog' = syncLog
          /\ hist'.logCalls = hist.logCalls
          /\ hist'.storeCalls = hist.storeCalls
          /\ ~CallsStore(result.latestTimestamp)
          /\ \A ok \in BOOLEAN :
               updateSyncLog(syncLog, resource, result.latestTimestamp, ok) = syncLog]_vars

C3Witness ==
  /\ resource \in Resources
  /\ pc = NextOf(resource)
  /\ hist.failCause = "none"
  /\ result.latestTimestamp = Null
  /\ hist.logCalls = 0
  /\ hist.cpBefore # Null
  /\ syncLog[resource] = hist.cpBefore

\* C4: a run that got at least one row and wrote the checkpoint leaves the
\* checkpoint at or above its value before the run, whatever row order the
\* server pages in.
C4CheckpointMonotone ==
  (/\ resource \in Resources
   /\ hist.cpWrites > 0
   /\ hist.gotRows
   /\ hist.anyOrder
   /\ hist.cpBefore # Null)
  => Val(syncLog[resource]) >= Val(hist.cpBefore)

\* C5: within one resource run no row identity is handed to upsertBatch
\* twice, neither in one batch nor in two.
C5NoDoubleUpsert == ~hist.dupUpsert

C5Witness ==
  /\ pc \in SlicePcs
  /\ hist.sent # {}
  /\ sl.totalFetched > Cardinality(seen)

\* C6: the totals of every resource run that returns satisfy
\* totalUnique <= totalFetched and totalUpserted <= totalUnique (here
\* already for runs against a stable server without any failure).
C6TotalsOrdered ==
  (pc = "runReturned" /\ hist.faithful)
  => /\ result.totalUnique <= result.totalFetched
     /\ result.totalUpserted <= result.totalUnique

\* C7: every window of a backward walk has start < end, and of two
\* consecutive windows the later one ends where the earlier one starts and
\* starts before it.
C7WindowsAdjacent ==
  /\ \A i \in 1..Len(hist.wins) : hist.wins[i].lo < hist.wins[i].hi
  /\ Len(hist.wins) = 2 =>
       /\ hist.wins[2].hi = hist.wins[1].lo
       /\ hist.wins[2].lo < hist.wins[1].lo

C7Witness ==
  /\ Len(hist.wins) = 2
  /\ hist.wins[2].hi = hist.wins[1].lo
  /\ pc \in {"propChunk", "mediaWalk", "mediaRange"}

\* C8: the walk of a full MEDIA run never requests a window that starts
\* before the floor date, and when it ends on the floor date the last
\* window it requested starts at the floor date.
C8FloorClamped ==
  /\ ~hist.belowFloor
  /\ (pc = "runReturned" /\ resource = "MEDIA" /\ hist.walkEnd = "floor")
       => /\ Len(hist.wins) > 0
          /\ hist.wins[Len(hist.wins)].lo = targetStartDate

\* C9: every window of the full MEDIA walk whose slice returned hitLimit is
\* put on skippedWeeks, also when the slice counted no rows, and every
\* skipped week has been drilled down when the run returns (here already
\* for runs against a stable server without any failure).
C9SaturatedDeferred ==
  hist.faithful
  => /\ ~hist.hitNotDeferred
     /\ (pc = "runReturned" /\ resource = "MEDIA")
          => hist.drilled = Len(walk.skippedWeeks)

\* C10: a 'total exceeds 100000' answer never makes a resource run fail.
C10CapNeverFails == pc = "runFailed" => hist.failCause # "cap"

\* The steps a slice can still take: one per page request it can still
\* make, and the step of its caller that takes its result.
SliceSteps ==
  IF sl.state = "running" THEN apiLimit - sl.skip + 1
  ELSE IF sl.state = "idle" THEN 0 ELSE 1

MaxSliceSteps == apiLimit + 1
HourUnit == 1 + MaxSliceSteps
MaxHoursSteps == HoursPerDay * HourUnit + 1
DayUnit == 1 + MaxSliceSteps + MaxHoursSteps
MaxDrillSteps == mediaDaysPerChunk * DayUnit + 2
WalkUnit == 1 + MaxSliceSteps + 1 + MaxDrillSteps
RangeUnit == 1 + MaxSliceSteps + MaxDrillSteps
PropUnit == 1 + MaxSliceSteps

\* The daily slices fetchMediaDailyInRange has still to start.
DaysLeft ==
  IF daily.currentDate < daily.rangeEnd
  THEN (daily.rangeEnd - daily.currentDate + HoursPerDay - 1) \div HoursPerDay
  ELSE 0

\* The steps the drill-down in progress can still take.
DrillSteps ==
  CASE pc = "dailyLoop" -> DaysLeft * DayUnit + 2
    [] pc = "mediaDay" -> SliceSteps + MaxHoursSteps + (DaysLeft - 1) * DayUnit + 2
    [] pc = "hourLoop" ->
         (HoursPerDay - daily.hour) * HourUnit + 1 + (DaysLeft - 1) * DayUnit + 2
    [] pc = "mediaHour" ->
         SliceSteps + (HoursPerDay - daily.hour - 1) * HourUnit + 1
           + (DaysLeft - 1) * DayUnit + 2
    [] OTHER -> 1

\* The steps the callers of the drill-down can still take once it is over.
AfterDrillSteps ==
  IF daily.caller = "walk"
  THEN (Len(walk.skippedWeeks) - walk.i - 1) * (1 + MaxDrillSteps) + 1
  ELSE (rangeMaxChunks - range.rangeChunkCount) * RangeUnit + 2

\* An upper bound of the steps the resource run in progress can still take.
RunSteps ==
  CASE pc = "propFirst" -> SliceSteps + propMaxChunks * PropUnit + 2
    [] pc = "chunkLoop" -> (propMaxChunks - chunks.chunkCount) * PropUnit + 2
    [] pc = "propChunk" -> SliceSteps + (propMaxChunks - chunks.chunkCount) * PropUnit + 2
    [] pc \in {"chunksReturn", "rangeReturn"} -> 1
    [] pc = "mediaIncr" -> SliceSteps + rangeMaxChunks * RangeUnit + 2
    [] pc = "rangeLoop" -> (rangeMaxChunks - range.rangeChunkCount) * RangeUnit + 2
    [] pc = "mediaRange" ->
         SliceSteps + MaxDrillSteps + (rangeMaxChunks - range.rangeChunkCount) * RangeUnit + 2
    [] pc = "walkLoop" ->
         (mediaMaxChunks - walk.chunkCount) * WalkUnit + 2
           + Len(walk.skippedWeeks) * (1 + MaxDrillSteps)
    [] pc = "mediaWalk" ->
         SliceSteps + 1 + MaxDrillSteps + (mediaMaxChunks - walk.chunkCount) * WalkUnit + 2
           + Len(walk.skippedWeeks) * (1 + MaxDrillSteps)
    [] pc = "walkSkipped" ->
         (Len(walk.skippedWeeks) - walk.i) * (1 + MaxDrillSteps) + 1
    [] pc \in {"dailyLoop", "mediaDay", "hourLoop", "mediaHour", "dailyReturn"} ->
         DrillSteps + AfterDrillSteps
    [] OTHER -> 0

RunPcs == SlicePcs \cup {"chunkLoop", "chunksReturn", "rangeLoop", "rangeReturn",
                         "walkLoop", "walkSkipped", "dailyLoop", "hourLoop", "dailyReturn"}

\* C11 as stated: every step of a resource run lowers a bound of the steps
\* the run can still take, so the run ends; the media walk starts at most
\* 500 window slices, none after 10 consecutive empty windows and none,
\* after the first, at or below the floor date; the drill-down of one
\* window starts at most days x 24 slices; nothing is put on skippedWeeks
\* during a drill-down.
C11TerminatesDaysTimes24 ==
  /\ [](/\ RunSteps >= 0
        /\ pc = "mediaWalk" =>
             /\ walk.chunkCount <= mediaMaxChunks
             /\ walk.emptyChunks < mediaMaxEmptyChunks
             /\ (walk.chunkCount > 1 => walk.startDate > targetStartDate)
        /\ hist.subSlices <= mediaDaysPerChunk * HoursPerDay)
  /\ [][/\ pc \in RunPcs => RunSteps' < RunSteps
        /\ (pc \in {"dailyLoop", "mediaDay", "hourLoop", "mediaHour", "dailyReturn"})
             => (Len(walk'.skippedWeeks) <= Len(walk.skippedWeeks))]_vars

\* C11, amended: as above, the drill-down of one window starting at most
\* days x (1 + 24) slices: one per day and 24 per saturated day.
C11Terminates ==
  /\ [](/\ RunSteps >= 0
        /\ pc = "mediaWalk" =>
             /\ walk.chunkCount <= mediaMaxChunks
             /\ walk.emptyChunks < mediaMaxEmptyChunks
             /\ (walk.chunkCount > 1 => walk.startDate > targetStartDate)
        /\ hist.subSlices <= mediaDaysPerChunk * (1 + HoursPerDay))
  /\ [][/\ pc \in RunPcs => RunSteps' < RunSteps
        /\ (pc \in {"dailyLoop", "mediaDay", "hourLoop", "mediaHour", "dailyReturn"})
             => (Len(walk'.skippedWeeks) <= Len(walk.skippedWeeks))]_vars

C11Witness ==
  /\ pc = "dailyReturn"
  /\ daily.caller = "walk"
  /\ hist.subSlices > mediaDaysPerChunk
  /\ hist.hourSaturated

\* The place of a resource in the order IDX, VOW, MEDIA.
OrderOf(r) == CASE r = "IDX" -> 1 [] r = "VOW" -> 2 [] r = "MEDIA" -> 3 [] OTHER -> 0

\* C12: a resource run starts only from main(), with no run in progress,
\* for a selected resource that comes later in the order IDX, VOW, MEDIA
\* than every resource run before; a returned run is left only by the step
\* that attempts its checkpoint write; and rows are written only by a page
\* of the run in progress, into that resource's table.
C12Sequential ==
  [][/\ (resource' # resource) =>
          /\ pc \in Resources
          /\ resource' = pc
          /\ Selected(pc)
          /\ OrderOf(resource) < OrderOf(pc)
          /\ sl.state = "idle"
     /\ (pc \in RunPcs \cup {"runReturned", "runFailed"}) => resource' = resource
     /\ (pc = "runReturned" /\ WritesCheckpoint(result)) =>
          hist'.logCalls = hist.logCalls + 1
     /\ (tables' # tables) =>
          /\ pc \in SlicePcs
          /\ \A t \in {"property", "media"} \ {TableOf(resource)} :
               tables'[t] = tables[t]]_vars

C12Witness ==
  /\ only = "all"
  /\ resource = "MEDIA"
  /\ pc = "runReturned"
  /\ tables["property"] # {}
  /\ tables["media"] # {}

\* C13: without --fail-fast a failed resource run leaves sync_log as it is,
\* main() goes on with the resource after it, every selected resource that
\* main() comes to is started, and the exit code is never 1.
C13FailureContinues ==
  /\ [](~failFast => exitCode \in {0 - 1, 0})
  /\ [][/\ (pc = "runFailed" /\ ~failFast) =>
             /\ syncLog' = syncLog
             /\ pc' = NextOf(resource)
             /\ exitCode' = exitCode
        /\ (pc \in Resources /\ Selected(pc)) => resource' = pc
        /\ (pc = "complete") => (pc' = "exited" /\ exitCode' = 0)]_vars

C13Witness ==
  /\ ~failFast
  /\ only = "all"
  /\ resource = "IDX"
  /\ pc = "VOW"
  /\ hist.failCause \in {"transport", "store", "token"}
  /\ syncLog["IDX"] = hist.cpBefore
  /\ exitCode # 1

\* C14: with --fail-fast a failed resource run is left by a step that ends
\* the process with exit code 1 and leaves sync_log as it is, and the
\* process takes no step after it has ended.
C14FailFastStops ==
  [][/\ (pc = "runFailed" /\ failFast) =>
          /\ pc' = "exited"
          /\ exitCode' = 1
          /\ syncLog' = syncLog
          /\ tables' = tables
     /\ pc # "exited"]_vars

C14Witness ==
  /\ failFast
  /\ only = "all"
  /\ resource = "IDX"
  /\ pc = "exited"
  /\ exitCode = 1
  /\ hist.failCause \in {"transport", "store", "token"}
  /\ syncLog["IDX"] = hist.cpBefore

\* C15 (as the specification states it): a process that ended before any
\* resource run was started, which is a process whose database
\* initialization failed, ended with exit code 1.
C15StartupFailureExitsOne ==
  (pc = "exited" /\ resource = "none") => exitCode = 1

\* C16: once the store has refused the checkpoint write of a returned run,
\* the run is not treated as failed: main() is at a later resource or at
\* its end, the exit code is not 1, and a process that ended has code 0.
C16CheckpointFailureLogged ==
  (hist.storeCalls > hist.cpWrites) =>
    /\ pc \in (Resources \cup {"complete", "exited"}) \ {resource}
    /\ exitCode # 1
    /\ (pc = "exited" => exitCode = 0)
    /\ syncLog[resource] = hist.cpBefore

C16Witness ==
  /\ failFast
  /\ hist.storeCalls > hist.cpWrites
  /\ result.latestTimestamp # Null
  /\ pc = "exited"
  /\ exitCode = 0

\* C17 (as the specification states it): a signal ends the process only
\* between slices: no step takes a slice that is awaiting a page to the
\* end of the process.
C17InterruptBetweenSlices ==
  [][(pc' = "exited") => ~(pc \in SlicePcs /\ sl.state = "running")]_vars

\* C20: fetchWithRetry makes at most 3 attempts; it has slept 500 ms after
\* the first failed attempt and 1000 ms after the second and never after
\* the third; it returns at the first attempt that succeeds, every attempt
\* before that one having failed; and after 3 failed attempts it throws the
\* error of the third.
C20RetrySchedule ==
  /\ Len(client.errors) + (IF client.state \in {"attempt", "returned"} THEN 1 ELSE 0) <= 3
  /\ Len(client.errors) <= 3
  /\ Len(client.slept) <= 2
  /\ client.slept = SubSeq(<<500, 1000>>, 1, Len(client.slept))
  /\ client.state = "attempt" =>
       /\ Len(client.errors) = client.attempt - 1
       /\ Len(client.slept) = Len(client.errors)
  /\ client.state = "sleeping" =>
       /\ Len(client.errors) = client.attempt
       /\ Len(client.slept) = client.attempt - 1
  /\ client.state = "returned" =>
       /\ Len(client.errors) = client.attempt - 1
       /\ Len(client.slept) = Len(client.errors)
       /\ client.out \in { Some(body) : body \in Bodies }
  /\ client.state = "threw" =>
       /\ client.attempt = 4
       /\ Len(client.errors) = 3
       /\ client.slept = <<500, 1000>>
       /\ client.out = Some(client.errors[3])

C20Witness ==
  /\ client.state = "threw"
  /\ client.errors[1] # client.errors[3]
  /\ client.errors[2] # client.errors[3]

\* C18 (as the specification states it): when an incremental run of a
\* resource has returned and stored its checkpoint, every answer it got
\* being a page of some order of the matching rows, the incremental run of
\* the process started next against the same upstream upserts no row.
C18SecondRunUpsertsNothing ==
  (/\ prior.runs = 1
   /\ incremental
   /\ prior.cpWrites > 0
   /\ prior.anyOrder
   /\ prior.failCause = "none")
  => hist.stored = {}

\* The identities of a set of rows of resource r.
IdsOf(r, rows) == { Identity(r, rec) : rec \in rows }

C21PermanentNotRetried ==
  \A i \in 1..Len(client.errors) :
    client.errors[i] \in PermanentErrors =>
      /\ i = Len(client.errors)
      /\ client.state = "threw"
      /\ client.out = Some(client.errors[i])
      /\ Len(client.slept) = i - 1

\* C22 (as the specification states it): a run in which a slice of the
\* drill-down of a deferred window threw does not return to the coordinator
\* as a success, and writes no checkpoint.
C22SliceFailureFailsRun ==
  (resource = "MEDIA" /\ hist.swallowed)
    => (pc # "runReturned" /\ hist.cpWrites = 0)

IsRequest(e) == e.op = "request"
IsUpsert(e) == e.op = "upsert"

\* The page requests of a slice, in the order they were issued.
RequestsOf(s) == SelectSeq(s.events, IsRequest)

\* C23: in every slice each page request carries a skip below the cap; skip
\* is 0 at the first request and is the number of rows received so far at
\* every later one; a slice whose skip has reached the cap has stopped
\* with hitLimit set, whatever the page size.
C23SkipBelowCap ==
  /\ \A i \in 1..Len(sl.events) : sl.events[i].skip < apiLimit
  /\ sl.skip <= sl.received
  /\ sl.state = "running" => sl.skip = sl.received
  /\ sl.events = <<>> => sl.skip = 0
  /\ sl.skip >= apiLimit => (sl.state = "returned" /\ sl.hitLimit)

\* A slice of one-row pages that stopped at the cap after two requests.
C23Witness ==
  /\ batchSize = 1
  /\ sl.state = "returned"
  /\ sl.hitLimit
  /\ sl.skip = apiLimit
  /\ Len(RequestsOf(sl)) = apiLimit

\* C24: a slice stops right after the first page that holds fewer rows than
\* the page size: that page's request is the last one of the slice, the
\* slice returns with hitLimit unset, and a short first page ends the slice
\* after exactly one request.
C24ShortPageStops ==
  LET reqs == RequestsOf(sl)
  IN  (/\ reqs # <<>>
       /\ sl.state \in {"running", "returned"}
       /\ sl.received < Len(reqs) * batchSize
       /\ ~BeyondCap(reqs[Len(reqs)].skip, batchSize))
      => /\ sl.state = "returned"
         /\ ~sl.hitLimit
         /\ sl.received >= (Len(reqs) - 1) * batchSize
         /\ sl.received < batchSize => Len(reqs) = 1

\* A slice of two-row pages whose first page held one row.
C24Witness ==
  /\ batchSize = 2
  /\ sl.state = "returned"
  /\ ~sl.hitLimit
  /\ sl.received = 1
  /\ Len(RequestsOf(sl)) = 1

\* Lines 341-348 and 1009-1016: the totalUnique a slice returns is the
\* size of the dedup set it was handed.
SliceUnique(sn) == Cardinality(sn)

\* C25 (as the specification states it): every slice that returns, the
\* first of a run or a later one, reports unique <= fetched, where fetched
\* is the number of rows the server returned over all its pages and unique
\* the number of identities the slice added to the dedup set (here already
\* against a stable server without any failure, and an upstream whose rows
\* all carry their key fields).
C25SliceTotals ==
  (/\ sl.state = "returned"
   /\ hist.faithful
   /\ \A rec \in feed : HasKeys(resource, rec))
  => /\ sl.totalFetched = sl.received
     /\ SliceUnique(seen) = sl.added
     /\ SliceUnique(seen) <= sl.totalFetched

\* C26: within one slice the pages are requested in strictly increasing
\* skip order, the upsert of a page comes right after that page's request
\* and before the next request, and the pages are upserted in the order
\* they were requested.
C26PagesInOrder ==
  LET ev == sl.events
  IN  /\ \A i, j \in 1..Len(ev) :
            (i < j /\ ev[i].op = ev[j].op) => ev[i].skip < ev[j].skip
      /\ \A i \in 1..Len(ev) :
            IsUpsert(ev[i]) => (i > 1 /\ IsRequest(ev[i - 1])
                                     /\ ev[i - 1].skip = ev[i].skip)

\* A slice that requested and upserted two pages.
C26Witness ==
  /\ Len(RequestsOf(sl)) = 2
  /\ Len(SelectSeq(sl.events, IsUpsert)) = 2

\* C27 (as the specification states it): in the full MEDIA walk a window
\* whose slice received no row from the server adds one to the
\* consecutive-empty counter, and a window whose slice received at least
\* one row sets it to 0, whether or not any of the received rows was new to
\* the dedup set (here already against a stable server without failures).
C27EmptyCounter ==
  [][(/\ pc = "mediaWalk"
      /\ sl.state = "returned"
      /\ pc' \in {"walkLoop", "walkSkipped"}
      /\ hist.faithful)
     => walk'.emptyChunks = IF sl.received = 0 THEN walk.emptyChunks + 1 ELSE 0]_vars

DrillDownPcs == {"dailyLoop", "mediaDay", "mediaHour"}

\* C28: in a full MEDIA run the drill-down of a deferred week is entered
\* only once the backward walk has ended, so that a saturated week does not
\* hold up the older windows; the weeks are drilled down one after the
\* other, all of them before the run returns, and the drill-down works on
\* the dedup set of the walk: every identity handed to the store so far is
\* still in it.
C28DrillDownAfterWalk ==
  /\ (walk.chunkCount > 0 /\ pc \in DrillDownPcs)
       => /\ daily.caller = "walk"
          /\ hist.walkEnd # "none"
          /\ walk.i < Len(walk.skippedWeeks)
          /\ hist.drilled = walk.i + 1
          /\ \A id \in hist.sent : id[1] \o <<"_">> \o id[2] \in seen
  /\ (walk.chunkCount > 0 /\ pc = "runReturned")
       => /\ walk.i = Len(walk.skippedWeeks)
          /\ hist.drilled = walk.i

\* The second of two deferred weeks is being drilled down.
C28Witness ==
  /\ pc = "mediaDay"
  /\ daily.caller = "walk"
  /\ Len(walk.skippedWeeks) = 2
  /\ walk.i = 1
  /\ seen # {}

\* C29 (as the specification states it): the hourly windows that are
\* fetched for a saturated daily window [d, d + 1 day) make up exactly that
\* window, so each of them lies inside it, whatever the time of day of d
\* (here already in a full run against a server that answers faithfully).
C29HoursInsideDay ==
  (pc = "mediaHour" /\ daily.caller = "walk" /\ hist.faithful)
  => /\ sl.filter.lo >= daily.dayStart
     /\ sl.filter.hi <= daily.dayStart + HoursPerDay

\* C30 (as the specification states it): the daily windows of the
\* drill-down of a deferred window [a, b) lie inside [a, b), so none of
\* them ends after b, also when the width of [a, b) is not a whole number
\* of days.
C30DaysInsideWindow ==
  pc = "mediaDay"
  => /\ sl.filter.lo >= daily.currentDate
     /\ sl.filter.hi <= daily.rangeEnd

\* C31: an hourly slice that returns with hitLimit set does not end the
\* run: its counts and latest timestamp are added to the totals of the
\* drill-down, the rows it upserted stay in the table, the loop goes on
\* with the next hour, a run with a saturated hour fails only on a
\* transport or store error, never on the cap, and a run that returns
\* after a saturated hour that upserted rows carries a latest timestamp,
\* so that its checkpoint is written.
C31SaturatedHourAccepted ==
  /\ []((hist.hourSaturated /\ pc = "runFailed" /\ resource = "MEDIA")
          => hist.failCause \in {"transport", "store"})
  /\ []((hist.hourStored /\ pc = "runReturned" /\ resource = "MEDIA")
          => WritesCheckpoint(result))
  /\ [][(pc = "mediaHour" /\ sl.state = "returned" /\ sl.hitLimit)
         => /\ pc' = "hourLoop"
            /\ daily'.hour = daily.hour + 1
            /\ daily'.totalFetched = daily.totalFetched + sl.totalFetched
            /\ daily'.totalUpserted = daily.totalUpserted + sl.totalUpserted
            /\ daily'.latestTimestamp = MergeLatest(daily.latestTimestamp,
                                                    sl.latestTimestamp)
            /\ tables' = tables
            /\ seen' = seen]_vars

\* The first day of a drill-down has a saturated hour behind it whose
\* slice upserted rows, and the next hour is up.
C31Witness ==
  /\ pc = "hourLoop"
  /\ daily.caller = "walk"
  /\ daily.currentDate = walk.skippedWeeks[walk.i + 1].startDate
  /\ hist.hourSaturated
  /\ daily.totalUpserted > 0
  /\ daily.hour < HoursPerDay

\* C32 (as the specification states it): in an incremental IDX or VOW run
\* with a checkpoint, a first slice that returns with hitLimit unset is the
\* only slice of the run: the run returns and no date chunk follows,
\* however many rows the slice fetched.
C32NoHitFinishes ==
  [][(pc = "propFirst" /\ sl.state = "returned" /\ ~sl.hitLimit)
     => pc' = "runReturned"]_vars

\* C33 (as the specification states it): in an incremental run with a
\* checkpoint, no date window that follows a saturated first slice starts
\* before the checkpoint (here for the date chunks of IDX and VOW).
C33ChunksAboveCheckpoint ==
  (/\ pc = "propChunk"
   /\ incremental
   /\ hist.cpBefore # Null)
  => sl.filter.lo >= Val(hist.cpBefore)

\* C34 (as the specification states it): a VOW or MEDIA run in full mode,
\* or in incremental mode without a checkpoint, issues date windows only:
\* none of its slices is unfiltered or has a single predicate.
C34HighVolumePartitioned ==
  (/\ resource \in {"VOW", "MEDIA"}
   /\ pc \in SlicePcs
   /\ sl.state = "running"
   /\ ~(incremental /\ hist.cpBefore # Null))
  => sl.filter.kind = "range"

\* C35 (as the specification states it): the totalFetched and totalUpserted
\* of a run that returns are the sums of the totalFetched and totalUpserted
\* of its slices, each slice counted once (here already against a server
\* that answers faithfully).
C35TotalsAreSums ==
  (pc = "runReturned" /\ hist.faithful)
  => /\ result.totalFetched = hist.sumFetched
     /\ result.totalUpserted = hist.sumUpserted

\* The timestamps of the upstream rows that the run has upserted.
StoredStamps == { rec.ts : rec \in { x \in feed : Identity(resource, x) \in hist.stored } }

\* C36 (as the specification states it): the latestTimestamp of a run that
\* returns is the greatest timestamp of the rows that its slices upserted,
\* those of a slice that hit the cap included (here already against a
\* server that never fails and answers every request with a page of some
\* order of the matching rows).
C36LatestIsMaxUpserted ==
  (pc = "runReturned" /\ hist.anyOrder /\ StoredStamps # {})
  => /\ result.latestTimestamp # Null
     /\ \A t \in StoredStamps : t <= Val(result.latestTimestamp)
     /\ Val(result.latestTimestamp) \in StoredStamps

\* C37: in the date-chunk walk of a listing resource (IDX, VOW), a window
\* whose slice hit the cap is fetched again in narrower sub-windows: the
\* window requested after it lies inside it.
C37SaturatedChunkRefetched ==
  [][(pc = "propChunk" /\ sl.state = "returned" /\ sl.hitLimit /\ pc' = "chunkLoop")
       => /\ chunks'.startDate >= chunks.startDate
          /\ chunks'.endDate <= chunks.endDate
          /\ chunks'.endDate - chunks'.startDate < chunks.endDate - chunks.startDate]_vars

\* C38: the media dedup identity is injective on key pairs: once a media
\* row is marked seen, a row with a different (ResourceRecordKey, MediaKey)
\* pair is not taken for it, whatever characters the keys hold.
C38IdentityInjective ==
  resource = "MEDIA"
  => \A x \in feed, y \in feed :
       ( /\ HasKeys(resource, x) /\ HasKeys(resource, y)
         /\ DedupKey(resource, x) \in seen
         /\ Identity(resource, x) # Identity(resource, y) )
       => DedupKey(resource, y) # DedupKey(resource, x)

\* C39: when the run of a resource returns successfully, every identity
\* of the dedup set is the identity of a row written by a successful
\* upsert.
C39SeenWereStored ==
  pc = "runReturned"
  => \A k \in seen :
       \E x \in feed : DedupKey(resource, x) = k /\ Identity(resource, x) \in hist.stored

\* C40: running, failing or checkpointing one resource never changes the
\* checkpoint row of another resource: from the start of a resource's run
\* on, the rows of the other resources are the ones the run started with.
C40OtherRowsUntouched ==
  resource \in Resources
  => \A r \in Resources \ {resource} : syncLog[r] = hist.logBefore[r]

\* A run has written its own row while another resource has a row.
C40Witness ==
  /\ resource \in Resources
  /\ pc = NextOf(resource)
  /\ hist.cpWrites = 1
  /\ syncLog[resource] # hist.logBefore[resource]
  /\ \E r \in Resources \ {resource} :
       syncLog[r] # Null /\ syncLog[r] # syncLog[resource]

====
